---- MODULE Spec2Model ----
(***************************************************************************)
(* Model of handle.py, the AllStar node connection hook: the node lookup   *)
(* over the flat node database (NodeDatabase.get_node_info), the Pushover  *)
(* notifier (PushoverNotifier.send), the decision core                     *)
(* (NodeMonitor.handle_connection_status / handle_blocked_node) and the    *)
(* process life cycle of main().                                           *)
(*                                                                         *)
(* Text is modelled at two grains.  A line of the node database is a       *)
(* sequence of one-character strings, so that the csv split on the         *)
(* delimiter and Python's int() are computed and not assumed.  A           *)
(* notification message is the sequence of the pieces its f-string joins   *)
(* with single spaces.  The database lines of the model hold no quote      *)
(* character, so csv quoting is not exercised.                             *)
(***************************************************************************)
EXTENDS Integers, Sequences, FiniteSets, TLC

VARIABLES
    pc,           \* position of main(): "start", "loaded", "done", "failed"; "lookup", "returned" for a stand-alone lookup
    rawConfig,    \* what the configuration file holds
    config,       \* the Config object once _load_config has run
    db,           \* the node database file: readable flag and its lines
    event,        \* the command-line arguments conn_status, my_node, their_node
    effects,      \* the externally observable calls of the run, in order
    exitCode,     \* process exit status (0 until an exception leaves main)
    node_number,  \* argument of a stand-alone get_node_info call
    result        \* the value that call returned

vars == <<pc, rawConfig, config, db, event, effects, exitCode, node_number, result>>

(***************************************************************************)
(* Bounds of the model.                                                    *)
(***************************************************************************)
MaxNode  == 1      \* node numbers are 0 .. MaxNode
MaxLines == 3      \* a node database of the lookup specification has at most this many lines

Nodes == 0 .. MaxNode

(***************************************************************************)
(* Program constants.                                                      *)
(***************************************************************************)
EMOJI_CONNECTED    == "EMOJI_CONNECTED"
EMOJI_DISCONNECTED == "EMOJI_DISCONNECTED"
EMOJI_BLOCKED      == "EMOJI_BLOCKED"

delimiter == "|"

Digits == <<"0", "1", "2", "3", "4", "5", "6", "7", "8", "9">>

(***************************************************************************)
(* str(int) for a non-negative integer, as the f-strings apply it.         *)
(***************************************************************************)
RECURSIVE Str(_)
Str(n) == IF n < 10 THEN Digits[n + 1]
          ELSE Str(n \div 10) \o Digits[(n % 10) + 1]

(***************************************************************************)
(* The text of a field: its characters joined.                             *)
(***************************************************************************)
RECURSIVE Text(_)
Text(cs) == IF cs = <<>> THEN "" ELSE Head(cs) \o Text(Tail(cs))

(***************************************************************************)
(* csv.reader on one line: an empty line gives the empty list, any other   *)
(* line is cut at every delimiter (a trailing delimiter leaves an empty    *)
(* last field).                                                            *)
(***************************************************************************)
RECURSIVE SplitFields(_)
SplitFields(cs) ==
    IF \A i \in 1 .. Len(cs) : cs[i] # delimiter
    THEN <<cs>>
    ELSE LET i == CHOOSE k \in 1 .. Len(cs) :
                      /\ cs[k] = delimiter
                      /\ \A j \in 1 .. (k - 1) : cs[j] # delimiter
         IN  <<SubSeq(cs, 1, i - 1)>> \o SplitFields(SubSeq(cs, i + 1, Len(cs)))

reader(line) == IF line = <<>> THEN <<>> ELSE SplitFields(line)

startswith(field, c) == field # <<>> /\ field[1] = c

(***************************************************************************)
(* Python's int(str): surrounding blanks are stripped, one sign is         *)
(* allowed, and what is left must be one or more decimal digits; anything  *)
(* else raises ValueError (ok = FALSE).                                    *)
(***************************************************************************)
RECURSIVE Strip(_)
Strip(cs) ==
    IF cs = <<>> THEN cs
    ELSE IF Head(cs) = " " THEN Strip(Tail(cs))
    ELSE IF cs[Len(cs)] = " " THEN Strip(SubSeq(cs, 1, Len(cs) - 1))
    ELSE cs

IsDigit(c) == \E d \in 1 .. 10 : Digits[d] = c

DigitVal(c) == (CHOOSE d \in 1 .. 10 : Digits[d] = c) - 1

RECURSIVE Decimal(_)
Decimal(ds) == IF ds = <<>> THEN 0
               ELSE 10 * Decimal(SubSeq(ds, 1, Len(ds) - 1)) + DigitVal(ds[Len(ds)])

(* The digits ds that follow an optional sign; negative when the sign was "-". *)
IntDigits(ds, negative) ==
    IF ds = <<>> \/ \E i \in 1 .. Len(ds) : ~IsDigit(ds[i])
    THEN [ok |-> FALSE, value |-> 0]
    ELSE [ok |-> TRUE, value |-> IF negative THEN 0 - Decimal(ds) ELSE Decimal(ds)]

IntStripped(s) ==
    IF s # <<>> /\ Head(s) \in {"+", "-"}
    THEN IntDigits(Tail(s), Head(s) = "-")
    ELSE IntDigits(s, FALSE)

int(field) == IntStripped(Strip(field))

(***************************************************************************)
(* The outcome of a call: the value it returned, or raised = TRUE and the  *)
(* name of the exception.                                                  *)
(***************************************************************************)
Return(v) == [raised |-> FALSE, value |-> v]
Raise(e)  == [raised |-> TRUE,  value |-> e]

(***************************************************************************)
(* The for loop of get_node_info.  ScanRows is the loop over the lines     *)
(* still to be read, ScanRow its body on one parsed line, MatchRow the     *)
(* comparison of the row's identifier (already through int()) and the      *)
(* formatting of the answer.                                               *)
(***************************************************************************)
RECURSIVE ScanRows(_, _)

MatchRow(line, id, rest, n) ==
    IF ~id.ok THEN Raise("ValueError")
    ELSE IF n = id.value
         THEN IF Len(line) < 4 THEN Raise("IndexError")
              ELSE Return("(" \o Text(line[2]) \o " " \o Text(line[3])
                          \o " in " \o Text(line[4]) \o ")")
         ELSE ScanRows(rest, n)

ScanRow(line, rest, n) ==
    IF line = <<>> \/ startswith(line[1], ";")
    THEN ScanRows(rest, n)
    ELSE MatchRow(line, int(line[1]), rest, n)

ScanRows(lines, n) ==
    IF lines = <<>> THEN Return("(unknown)")
    ELSE ScanRow(reader(Head(lines)), Tail(lines), n)

(***************************************************************************)
(* The body of the try block: open the file, then scan it.                 *)
(***************************************************************************)
ReadNodeDb(file, n) ==
    IF ~file.readable THEN Raise("OSError") ELSE ScanRows(file.lines, n)

(* The except clause: any exception becomes the placeholder. *)
ExceptException(r) == IF r.raised THEN Return("(error reading db)") ELSE r

(* The lookup with the except clause left out. *)
get_node_info_uncaught(file, n) == ReadNodeDb(file, n)

get_node_info(file, n) == ExceptException(ReadNodeDb(file, n))

(***************************************************************************)
(* One entry of the effects log.  op is "system" (os.system, arg the       *)
(* command), "get_node_info" (arg the node, out the string returned),      *)
(* "send" (a call of the notifier, arg the message) or "post" (the HTTPS   *)
(* request, arg the message, out what the network answered).               *)
(***************************************************************************)
Effect(op, arg, out) == [op |-> op, arg |-> arg, out |-> out]

Outcome(raised, eff) == [raised |-> raised, effects |-> eff]

(***************************************************************************)
(* Statement a followed by statement b: b runs only if a did not raise.    *)
(***************************************************************************)
Then(a, b) == IF a.raised THEN Outcome(TRUE, a.effects)
              ELSE Outcome(b.raised, a.effects \o b.effects)

(***************************************************************************)
(* What the network does to a request: an HTTP status, or no connection.   *)
(***************************************************************************)
NetOutcomes == {"200", "500", "refused"}

(* The request and getresponse calls inside the try block of send. *)
Request(message, net) ==
    Outcome(net = "refused", <<Effect("post", message, net)>>)

(* send without the enabled test. *)
send_always(pushover, message, net) ==
    Outcome(FALSE, <<Effect("send", message, "")>> \o Request(message, net).effects)

send(pushover, message, net) ==
    IF ~pushover.enabled THEN Outcome(FALSE, <<Effect("send", message, "")>>)
    ELSE Outcome(FALSE, <<Effect("send", message, "")>> \o Request(message, net).effects)

(***************************************************************************)
(* A call of get_node_info made while composing a message, with its log    *)
(* entry.                                                                  *)
(***************************************************************************)
Looked(n, r) ==
    [raised |-> r.raised, value |-> r.value,
     effects |-> <<Effect("get_node_info", <<Str(n)>>, r.value)>>]

Lookup(file, n) == Looked(n, get_node_info(file, n))

(***************************************************************************)
(* handle_blocked_node: the command, the two lookups of the f-string in    *)
(* the order it evaluates them, the notification.                          *)
(***************************************************************************)
BlockCommand(my_node, their_node) ==
    <<"asterisk -rx", "rpt fun", Str(my_node), "*1" \o Str(their_node)>>

BlockedStatus(their_node, their_info, my_node, my_info, now) ==
    <<EMOJI_BLOCKED, "Blocked node", Str(their_node), their_info,
      "was auto disconnected from", Str(my_node), my_info, "at", now>>

BlockedNotice(cfg, my_node, their_node, their, mine, now, net) ==
    Then(Outcome(FALSE, <<Effect("system", BlockCommand(my_node, their_node), "")>>),
         Then(their,
              Then(mine,
                   send(cfg.pushover,
                        BlockedStatus(their_node, their.value, my_node, mine.value, now),
                        net))))

(* The same steps with the command issued after the notification. *)
BlockedNoticeFirst(cfg, my_node, their_node, their, mine, now, net) ==
    Then(their,
         Then(mine,
              Then(send(cfg.pushover,
                        BlockedStatus(their_node, their.value, my_node, mine.value, now),
                        net),
                   Outcome(FALSE, <<Effect("system", BlockCommand(my_node, their_node), "")>>))))

handle_blocked_node_notify_first(cfg, file, my_node, their_node, now, net) ==
    BlockedNoticeFirst(cfg, my_node, their_node,
                       Lookup(file, their_node), Lookup(file, my_node), now, net)

handle_blocked_node(cfg, file, my_node, their_node, now, net) ==
    BlockedNotice(cfg, my_node, their_node,
                  Lookup(file, their_node), Lookup(file, my_node), now, net)

(***************************************************************************)
(* Lines 136-147 of handle_connection_status: the notification of a        *)
(* connect or disconnect.  The local-node display (target) is computed     *)
(* first, so a lookup of my_node precedes the lookup of their_node.        *)
(***************************************************************************)
Displayed(my_node, info) ==
    [raised |-> info.raised, effects |-> info.effects,
     value |-> <<Str(my_node), info.value>>]

DisplayEcholink(my_node) ==
    [raised |-> FALSE, effects |-> <<>>,
     value |-> <<"Echolink (" \o Str(my_node) \o ")">>]

(* The display without the Echolink label. *)
LocalDisplay_no_echolink(cfg, file, my_node) ==
    Displayed(my_node, Lookup(file, my_node))

LocalDisplay(cfg, file, my_node) ==
    IF cfg.nodes.echolink = <<my_node>>
    THEN DisplayEcholink(my_node)
    ELSE Displayed(my_node, Lookup(file, my_node))

(* The message with the markers and phrases of the two statuses exchanged. *)
ConnectionStatus_swapped(conn_status, their_node, their_info, target, now) ==
    <<IF conn_status = 1 THEN EMOJI_DISCONNECTED ELSE EMOJI_CONNECTED,
      "Node", Str(their_node), their_info,
      IF conn_status = 1 THEN "disconnected from" ELSE "connected to">>
    \o target \o <<"at", now>>

ConnectionStatus(conn_status, their_node, their_info, target, now) ==
    <<IF conn_status = 1 THEN EMOJI_CONNECTED ELSE EMOJI_DISCONNECTED,
      "Node", Str(their_node), their_info,
      IF conn_status = 1 THEN "connected to" ELSE "disconnected from">>
    \o target \o <<"at", now>>

ConnectionNotice(cfg, conn_status, their_node, target, their, now, net) ==
    Then(target,
         Then(their,
              send(cfg.pushover,
                   ConnectionStatus(conn_status, their_node, their.value, target.value, now),
                   net)))

notify_connection(cfg, file, conn_status, my_node, their_node, now, net) ==
    ConnectionNotice(cfg, conn_status, their_node,
                     LocalDisplay(cfg, file, my_node), Lookup(file, their_node), now, net)

(* handle_connection_status testing the suppression lists before the blocked list. *)
handle_connection_status_suppress_first(cfg, file, conn_status, my_node, their_node, now, net) ==
    IF their_node \in cfg.nodes.my_nodes \/ their_node \in cfg.nodes.private_nodes
    THEN Outcome(FALSE, <<>>)
    ELSE IF their_node \in cfg.nodes.blocked_nodes
    THEN handle_blocked_node(cfg, file, my_node, their_node, now, net)
    ELSE notify_connection(cfg, file, conn_status, my_node, their_node, now, net)

(* handle_connection_status suppressing on my_nodes only. *)
handle_connection_status_no_private(cfg, file, conn_status, my_node, their_node, now, net) ==
    IF their_node \in cfg.nodes.blocked_nodes
    THEN handle_blocked_node(cfg, file, my_node, their_node, now, net)
    ELSE IF their_node \in cfg.nodes.my_nodes
    THEN Outcome(FALSE, <<>>)
    ELSE notify_connection(cfg, file, conn_status, my_node, their_node, now, net)

(* handle_connection_status testing the local node against the suppression lists. *)
handle_connection_status_local(cfg, file, conn_status, my_node, their_node, now, net) ==
    IF their_node \in cfg.nodes.blocked_nodes
    THEN handle_blocked_node(cfg, file, my_node, their_node, now, net)
    ELSE IF my_node \in cfg.nodes.my_nodes \/ my_node \in cfg.nodes.private_nodes
    THEN Outcome(FALSE, <<>>)
    ELSE notify_connection(cfg, file, conn_status, my_node, their_node, now, net)

handle_connection_status(cfg, file, conn_status, my_node, their_node, now, net) ==
    IF their_node \in cfg.nodes.blocked_nodes
    THEN handle_blocked_node(cfg, file, my_node, their_node, now, net)
    ELSE IF their_node \in cfg.nodes.my_nodes \/ their_node \in cfg.nodes.private_nodes
    THEN Outcome(FALSE, <<>>)
    ELSE notify_connection(cfg, file, conn_status, my_node, their_node, now, net)

(***************************************************************************)
(* Config._load_config on a well-formed file: the three lists are kept for *)
(* membership tests, and a null or zero echolink entry becomes None (the   *)
(* empty sequence; a configured node n is <<n>>).                          *)
(***************************************************************************)
_load_config(raw) ==
    [nodes |-> [my_nodes      |-> raw.nodes.my_nodes,
                private_nodes |-> raw.nodes.private_nodes,
                blocked_nodes |-> raw.nodes.blocked_nodes,
                echolink      |-> IF raw.nodes.echolink \in {<<>>, <<0>>}
                                  THEN <<>> ELSE raw.nodes.echolink],
     pushover |-> [enabled |-> raw.pushover.enabled]]

NoNodes == [my_nodes |-> {}, private_nodes |-> {}, blocked_nodes |-> {}, echolink |-> <<>>]

NoConfig == [nodes |-> NoNodes, pushover |-> [enabled |-> FALSE]]

(***************************************************************************)
(* The configuration files of the model: every well-formed one over Nodes, *)
(* and one for each way the load fails.                                    *)
(***************************************************************************)
ConfigFiles ==
    { [kind |-> "ok",
       nodes |-> [my_nodes |-> m, private_nodes |-> p, blocked_nodes |-> b, echolink |-> e],
       pushover |-> [enabled |-> en]] :
         m \in SUBSET Nodes, p \in SUBSET Nodes, b \in SUBSET Nodes,
         e \in {<<>>} \cup {<<n>> : n \in Nodes}, en \in BOOLEAN }
    \cup
    { [kind |-> k, nodes |-> NoNodes, pushover |-> [enabled |-> FALSE]] :
         k \in {"missing", "bad_yaml", "missing_key"} }

(***************************************************************************)
(* Lines of a node database.                                               *)
(***************************************************************************)
Row(id, call, name, loc) == id \o <<"|", call, "|", name, "|", loc>>

BlankLine   == <<>>
CommentRow1 == Row(<<";", "1">>, "X", "Y", "Z")
Row0        == Row(<<"0">>, "A", "B", "C")
Row1        == Row(<<"1">>, "D", "E", "F")
Row1Again   == Row(<<"0", "1">>, "G", "H", "I")
NonIntRow   == Row(<<"x">>, "J", "K", "L")
ShortRow1   == <<"1", "|", "M">>
ShortRow0   == <<" ", "0">>

Lines == {BlankLine, CommentRow1, Row0, Row1, Row1Again, NonIntRow, ShortRow1, ShortRow0}

RECURSIVE FilesUpTo(_)
FilesUpTo(k) == IF k = 0 THEN {<<>>}
                ELSE LET shorter == FilesUpTo(k - 1)
                     IN  shorter \cup {Append(f, l) : f \in shorter, l \in Lines}

File(lines) == [readable |-> TRUE, lines |-> lines]

Unreadable == [readable |-> FALSE, lines |-> <<>>]

(* The node databases a run of main() is checked with. *)
DbFiles == {Unreadable, File(<<CommentRow1, Row1>>)}

(* The node databases a stand-alone lookup is checked with. *)
LookupFiles == {Unreadable} \cup {File(f) : f \in FilesUpTo(MaxLines)}

(* What datetime.now().strftime('%H:%M:%S') gives during the run. *)
Times == {"23:59:59"}

Events == [conn_status : {0, 1}, my_node : Nodes, their_node : Nodes]

NoEvent == [conn_status |-> 0, my_node |-> 0, their_node |-> 0]

(***************************************************************************)
(* main(): the process loads the configuration, handles the one event its  *)
(* arguments describe and exits.  The arguments are recorded in event when *)
(* the handler receives them.                                              *)
(***************************************************************************)
Init ==
    /\ pc = "start"
    /\ rawConfig \in ConfigFiles
    /\ config = NoConfig
    /\ db \in DbFiles
    /\ event = NoEvent
    /\ effects = <<>>
    /\ exitCode = 0
    /\ node_number = 0
    /\ result = Return("")

LoadConfig ==
    /\ pc = "start"
    /\ rawConfig.kind = "ok"
    /\ config' = _load_config(rawConfig)
    /\ pc' = "loaded"
    /\ UNCHANGED <<rawConfig, db, event, effects, exitCode, node_number, result>>

LoadConfigFails ==
    /\ pc = "start"
    /\ rawConfig.kind # "ok"
    /\ pc' = "failed"
    /\ exitCode' = 1
    /\ UNCHANGED <<rawConfig, config, db, event, effects, node_number, result>>

(* main() after the handler returned or raised. *)
Exit(r) ==
    /\ effects' = r.effects
    /\ exitCode' = IF r.raised THEN 1 ELSE 0

HandleConnectionStatus ==
    /\ pc = "loaded"
    /\ \E args \in Events, now \in Times, net \in NetOutcomes :
         /\ event' = args
         /\ Exit(handle_connection_status(config, db, args.conn_status,
                                          args.my_node, args.their_node, now, net))
    /\ pc' = "done"
    /\ UNCHANGED <<rawConfig, config, db, node_number, result>>

Next == LoadConfig \/ LoadConfigFails \/ HandleConnectionStatus

Spec == Init /\ [][Next]_vars

(***************************************************************************)
(* A stand-alone call of NodeDatabase.get_node_info on any small file.     *)
(***************************************************************************)
InitLookup ==
    /\ pc = "lookup"
    /\ rawConfig = [kind |-> "ok", nodes |-> NoNodes, pushover |-> [enabled |-> FALSE]]
    /\ config = NoConfig
    /\ db \in LookupFiles
    /\ event = NoEvent
    /\ effects = <<>>
    /\ exitCode = 0
    /\ node_number \in Nodes
    /\ result = Return("")

GetNodeInfo ==
    /\ pc = "lookup"
    /\ result' = get_node_info(db, node_number)
    /\ pc' = "returned"
    /\ UNCHANGED <<rawConfig, config, db, event, effects, exitCode, node_number>>

NextLookup == GetNodeInfo

SpecLookup == InitLookup /\ [][NextLookup]_vars


(***************************************************************************)
(* Vocabulary of the properties.                                           *)
(***************************************************************************)
Handled == pc = "done"

Blocked == event.their_node \in config.nodes.blocked_nodes

Suppressed ==
    /\ ~Blocked
    /\ event.their_node \in config.nodes.my_nodes \cup config.nodes.private_nodes

Normal == ~Blocked /\ ~Suppressed

Calls(op) == {i \in DOMAIN effects : effects[i].op = op}

Count(op) == Cardinality(Calls(op))

EcholinkLabel(n) == "Echolink (" \o Str(n) \o ")"

Contains(message, piece) == \E k \in DOMAIN message : message[k] = piece

(***************************************************************************)
(* C1: when their_node is in blocked_nodes, the run issues the block       *)
(* command exactly once, for (my_node, their_node), and calls the notifier *)
(* exactly once with a message that starts with the blocked marker,        *)
(* whether or not their_node is also in my_nodes or private_nodes.         *)
(***************************************************************************)
C1_BlockedCommandAndNotice ==
    Handled /\ Blocked =>
        /\ Count("system") = 1
        /\ \A i \in Calls("system") :
               effects[i].arg = <<"asterisk -rx", "rpt fun", Str(event.my_node),
                                  "*1" \o Str(event.their_node)>>
        /\ Count("send") = 1
        /\ \A i \in Calls("send") : effects[i].arg[1] = EMOJI_BLOCKED

C1_Witness ==
    /\ Handled /\ Blocked
    /\ event.their_node \in config.nodes.my_nodes
    /\ event.their_node \in config.nodes.private_nodes
    /\ event.my_node # event.their_node
    /\ Count("system") = 1 /\ Count("send") = 1

(***************************************************************************)
(* C2: when their_node is in my_nodes or private_nodes and not in          *)
(* blocked_nodes, the run has no effect at all: no command, no lookup, no  *)
(* notifier call, no POST.                                                 *)
(***************************************************************************)
C2_SuppressedNoEffects == Handled /\ Suppressed => effects = <<>>

C2_Witness ==
    /\ Handled /\ Suppressed
    /\ event.their_node \in config.nodes.private_nodes
    /\ event.their_node \notin config.nodes.my_nodes
    /\ config.pushover.enabled
    /\ effects = <<>>

(***************************************************************************)
(* C3: when their_node is in none of the three lists, the run issues no    *)
(* command and calls the notifier exactly once, with the message           *)
(* <marker> Node <their_node> <lookup of their_node> <action>              *)
(* <local-node display> at <time>, marker and action being the connected   *)
(* pair for status 1 and the disconnected pair for status 0.               *)
(***************************************************************************)
C3_Marker == IF event.conn_status = 1 THEN EMOJI_CONNECTED ELSE EMOJI_DISCONNECTED

C3_Action == IF event.conn_status = 1 THEN "connected to" ELSE "disconnected from"

C3_Display ==
    IF config.nodes.echolink = <<event.my_node>>
    THEN <<EcholinkLabel(event.my_node)>>
    ELSE <<Str(event.my_node), get_node_info(db, event.my_node).value>>

C3_NormalNotice ==
    Handled /\ Normal =>
        /\ Count("system") = 0
        /\ Count("send") = 1
        /\ \A i \in Calls("send") : \E now \in Times :
               effects[i].arg =
                   <<C3_Marker, "Node", Str(event.their_node),
                     get_node_info(db, event.their_node).value, C3_Action>>
                   \o C3_Display \o <<"at", now>>

C3_Witness ==
    /\ Handled /\ Normal
    /\ event.conn_status = 0
    /\ event.my_node # event.their_node
    /\ \E i \in Calls("send") :
           /\ effects[i].arg[1] = EMOJI_DISCONNECTED
           /\ effects[i].arg[4] = "(D E in F)"
           /\ effects[i].arg[7] = "(unknown)"

(***************************************************************************)
(* C4: the numbers of commands and of notifier calls depend on their_node  *)
(* and the lists only: the same event with any other my_node gives the     *)
(* same two numbers, also when my_node is in one of the lists.  The run    *)
(* compared with takes one fixed time and network answer.                  *)
(***************************************************************************)
C4_CountIn(r, op) == Cardinality({i \in DOMAIN r.effects : r.effects[i].op = op})

C4_SameCounts(r) ==
    /\ C4_CountIn(r, "system") = Count("system")
    /\ C4_CountIn(r, "send") = Count("send")

C4_PathIgnoresLocalNode ==
    Handled =>
        \A n \in Nodes :
            C4_SameCounts(handle_connection_status(config, db, event.conn_status, n,
                                                   event.their_node, "23:59:59", "200"))

C4_Witness ==
    /\ Handled /\ Normal
    /\ event.my_node \in config.nodes.my_nodes
    /\ event.my_node \in config.nodes.blocked_nodes
    /\ Count("send") = 1
    /\ \E n \in Nodes : n # event.my_node /\ n \notin config.nodes.my_nodes

(***************************************************************************)
(* C5: a line with fewer than 4 fields or a non-integer first field never  *)
(* aborts the scan or changes the result: the lookup answers as it does on *)
(* the file with those lines taken out.                                    *)
(***************************************************************************)
C5_Malformed(l) == Len(reader(l)) < 4 \/ ~int(reader(l)[1]).ok

C5_WellFormed(l) == ~C5_Malformed(l)

C5_MalformedLinesSkipped ==
    pc = "returned" /\ db.readable =>
        result = get_node_info(File(SelectSeq(db.lines, C5_WellFormed)), node_number)

(***************************************************************************)
(* C6: on a readable file the lookup returns the formatted string of the   *)
(* first row that is not blank, not a comment and whose first field equals *)
(* the identifier, and "(unknown)" when there is no such row; it never     *)
(* raises.                                                                 *)
(***************************************************************************)
C6_Matches(l, n) ==
    /\ reader(l) # <<>>
    /\ ~startswith(reader(l)[1], ";")
    /\ int(reader(l)[1]).ok
    /\ int(reader(l)[1]).value = n

C6_FirstMatch ==
    CHOOSE i \in DOMAIN db.lines :
        /\ C6_Matches(db.lines[i], node_number)
        /\ \A j \in 1 .. (i - 1) : ~C6_Matches(db.lines[j], node_number)

C6_FirstMatchWins ==
    pc = "returned" /\ db.readable =>
        /\ ~result.raised
        /\ IF \E i \in DOMAIN db.lines : C6_Matches(db.lines[i], node_number)
           THEN /\ Len(reader(db.lines[C6_FirstMatch])) >= 4
                /\ result.value =
                      "(" \o Text(reader(db.lines[C6_FirstMatch])[2])
                      \o " " \o Text(reader(db.lines[C6_FirstMatch])[3])
                      \o " in " \o Text(reader(db.lines[C6_FirstMatch])[4]) \o ")"
           ELSE result.value = "(unknown)"

(***************************************************************************)
(* C7, as stated: whenever my_node is the configured echolink node and a   *)
(* message is composed, the message contains "Echolink (<my_node>)" and    *)
(* the run makes no lookup of that identifier.                             *)
(***************************************************************************)
C7_EcholinkEveryPath ==
    Handled /\ config.nodes.echolink = <<event.my_node>> /\ Count("send") > 0 =>
        /\ \A i \in Calls("send") : Contains(effects[i].arg, EcholinkLabel(event.my_node))
        /\ \A i \in Calls("get_node_info") : effects[i].arg # <<Str(event.my_node)>>

(***************************************************************************)
(* C7, amended: on the normal path (their_node in none of the lists) with  *)
(* my_node the configured echolink node, the message contains              *)
(* "Echolink (<my_node>)" and the only lookup of the run is the one of     *)
(* their_node, so my_node is looked up only if their_node is the same      *)
(* identifier.  On the blocked path the message has no Echolink label and  *)
(* both nodes are looked up.                                               *)
(***************************************************************************)
C7_EcholinkNormalPath ==
    Handled /\ config.nodes.echolink = <<event.my_node>> =>
        /\ Normal =>
              /\ \A i \in Calls("send") :
                     Contains(effects[i].arg, EcholinkLabel(event.my_node))
              /\ Count("get_node_info") = 1
              /\ \A i \in Calls("get_node_info") :
                     effects[i].arg = <<Str(event.their_node)>>
        /\ Blocked =>
              /\ \A i \in Calls("send") :
                     ~Contains(effects[i].arg, EcholinkLabel(event.my_node))
              /\ Count("get_node_info") = 2
              /\ \E i \in Calls("get_node_info") : effects[i].arg = <<Str(event.my_node)>>

C7_Witness ==
    /\ Handled /\ Normal
    /\ config.nodes.echolink = <<event.my_node>>
    /\ event.my_node # event.their_node
    /\ \E i \in Calls("send") : effects[i].arg[6] = EcholinkLabel(event.my_node)

(***************************************************************************)
(* C8: once the configuration has loaded the run ends with exit status 0   *)
(* whatever fails at run time: with an unreadable node database every      *)
(* lookup gives "(error reading db)" and the notifier is still called, the *)
(* placeholder in its message; a failed POST leaves the exit status 0.     *)
(***************************************************************************)
C8_RuntimeFailuresDegrade ==
    /\ rawConfig.kind = "ok" => pc # "failed" /\ exitCode = 0
    /\ Handled /\ ~db.readable =>
          /\ \A i \in Calls("get_node_info") : effects[i].out = "(error reading db)"
          /\ ~Suppressed =>
                /\ Count("send") = 1
                /\ \A i \in Calls("send") : effects[i].arg[4] = "(error reading db)"

C8_Witness ==
    /\ Handled /\ ~db.readable /\ exitCode = 0
    /\ Count("get_node_info") = 2
    /\ \E i \in Calls("post") : effects[i].out = "refused"

(***************************************************************************)
(* C9: on the blocked path the command is the first effect and the only    *)
(* command, every lookup comes before the notifier call, and after the     *)
(* notifier call there is nothing but its own POST.                        *)
(***************************************************************************)
C9_BlockedOrder ==
    Handled /\ Blocked =>
        /\ effects # <<>>
        /\ effects[1].op = "system"
        /\ \A i \in Calls("send") :
               /\ \A j \in 2 .. (i - 1) : effects[j].op = "get_node_info"
               /\ \A j \in (i + 1) .. Len(effects) :
                      /\ j = i + 1
                      /\ effects[j].op = "post"
                      /\ effects[j].arg = effects[i].arg
        /\ Calls("send") # {}

C9_Witness ==
    /\ Handled /\ Blocked
    /\ Len(effects) = 5
    /\ effects[2].op = "get_node_info" /\ effects[3].op = "get_node_info"
    /\ effects[5].op = "post"

(***************************************************************************)
(* C10: with the notifier disabled no run makes a POST; with it enabled    *)
(* every notifier call makes exactly one POST; a run makes at most one.    *)
(***************************************************************************)
C10_PostOnlyWhenEnabled ==
    Handled =>
        /\ ~config.pushover.enabled => Count("post") = 0
        /\ config.pushover.enabled => Count("post") = Count("send")
        /\ Count("post") <= 1

C10_Witness ==
    /\ Handled /\ ~config.pushover.enabled
    /\ Count("send") = 1 /\ Count("post") = 0

====
